---- MODULE Spec2Model ----
(***************************************************************************)
(* A model of the Mach-O input-file core (src/macho/input-files.cc):       *)
(* symbol resolution, archive liveness, duplicate-symbol reporting,        *)
(* subsection splitting, compact-unwind attachment and dylib reexports.    *)
(*                                                                         *)
(* Three groups of state, each driven by its own specification:            *)
(*   Spec / LiveSpec   the global resolver (resolve_symbols,               *)
(*                     check_duplicate_symbols, mark_live_objects)         *)
(*   ParseSpec / CStringSpec / UnwindSpec   ObjectFile::parse              *)
(*   DylibSpec         DylibFile::create                                   *)
(***************************************************************************)
EXTENDS Integers, Sequences, FiniteSets, TLC

VARIABLES
  \* ---- resolver ----
  files,      \* file id -> InputFile (frozen before resolution)
  alive,      \* file id -> InputFile::is_alive (atomic)
  symtab,     \* name -> Symbol (the interned, process-wide symbols)
  rpc,        \* file id -> index of the next entry of its resolve_symbols loop
  checked,    \* files whose check_duplicate_symbols has run
  diags,      \* "duplicate symbol" diagnostics: <<reporting file, owner, name>>
  mpc,        \* file id -> index of the next entry of its mark_live_objects loop
  fed,        \* file id -> number of times it was handed to the feeder
  \* ---- ObjectFile::parse of one object ----
  obj,            \* the mapped file: header flag, section table, symbol table,
                  \* __compact_unwind entries and their relocations
  ppc,            \* position in parse: split, sort, unwind, done, fatal, crashed
  split,          \* what split_regular_sections returned (mode A)
  subsections,    \* ObjectFile::subsections (the Subsections, in vector order)
  sym_to_subsec,  \* ObjectFile::sym_to_subsec (Subsection ids)
  lsyms,          \* subsec and value of the Symbol of each symbol-table entry
  unwind_records, \* ObjectFile::unwind_records
  \* ---- DylibFile::create of one dylib ----
  libs,       \* path -> what parse_tapi / parse_dylib read from that file
  dstack,     \* the DylibFiles of the create calls in progress, outermost first
  dylib,      \* the DylibFile the outermost create returned
  dpc         \* position in create: run, done, fatal, diverges

resVars == <<files, alive, symtab, rpc, checked, diags, mpc, fed>>

parVars == <<obj, ppc, split, subsections, sym_to_subsec, lsyms, unwind_records>>

dylVars == <<libs, dstack, dylib, dpc>>

vars == <<resVars, parVars, dylVars>>

\* The resolver's state while no link is modelled.
ResolverIdle ==
  /\ files = <<>>
  /\ alive = <<>>
  /\ symtab = <<>>
  /\ rpc = <<>>
  /\ checked = {}
  /\ diags = {}
  /\ mpc = <<>>
  /\ fed = <<>>

\* DylibFile::create's state while no dylib is modelled.
DylibIdle ==
  /\ libs = <<>>
  /\ dstack = <<>>
  /\ dylib = <<>>
  /\ dpc = "idle"

\* The parser's state while no object is modelled.
ParseIdle ==
  /\ obj = <<>>
  /\ ppc = "idle"
  /\ split = <<>>
  /\ subsections = <<>>
  /\ sym_to_subsec = <<>>
  /\ lsyms = <<>>
  /\ unwind_records = <<>>

\* --------------------------------------------------------------------------
\* Bounds and program constants
\* --------------------------------------------------------------------------

\* Number of input files of a link.
NumFiles == 2

\* get_rank shifts the kind by 24 bits: kind * 2^24 + file->priority.
RankUnit == 16777216

Files == 1..NumFiles
NoFile == 0
NullSubsec == [file |-> 0, input_addr |-> 0]

\* Files are numbered in command-line order; an earlier file has a smaller
\* priority.  Priorities are pairwise distinct.
FilePriority(f) == 4 * f - 3

ResolveNames == <<"_g">>
LiveNames == <<"_foo", "_bar">>
AllNames == {"_g", "_foo", "_bar"}

\* --------------------------------------------------------------------------
\* Inputs: symbol-table entries and files
\* --------------------------------------------------------------------------

\* An extern nlist entry of object file f for `name`, of one of the shapes the
\* resolver distinguishes.
ObjSym(name, shape, f) ==
  LET type == CASE shape \in {"undef", "common"} -> "N_UNDF"
                [] shape = "abs" -> "N_ABS"
                [] OTHER -> "N_SECT"
  IN [name |-> name,
      is_extern |-> TRUE,
      type |-> type,
      value |-> CASE shape = "undef" -> 0
                  [] shape = "common" -> 8 + f
                  [] shape = "abs" -> 64 + f
                  [] OTHER -> 16 * f + f,
      is_private_extern |-> (shape = "pext"),
      weak_def |-> (shape \in {"weak", "weakref_weakdef"}),
      weak_ref |-> (shape = "weakref_weakdef"),
      \* sym_to_subsec[i] as left by parse
      subsec |-> IF type = "N_SECT" THEN [file |-> f, input_addr |-> 16 * f]
                 ELSE NullSubsec]

\* An export of dylib f: syms[i] with is_weak_symbol[i].
DylibSym(name, shape) ==
  [name |-> name, is_weak_symbol |-> (shape = "weak_export")]

RECURSIVE BuildSyms(_, _, _, _, _)
BuildSyms(names, choice, f, is_dylib, i) ==
  IF i > Len(names) THEN <<>>
  ELSE LET rest == BuildSyms(names, choice, f, is_dylib, i + 1)
       IN IF choice[i] = "none" THEN rest
          ELSE <<IF is_dylib THEN DylibSym(names[i], choice[i])
                 ELSE ObjSym(names[i], choice[i], f)>> \o rest

\* The choices that make up one input file: object or dylib, its command-line
\* properties, and for each name the shape of its entry ("none": no entry).
FileChoices(names, objShapes, objKinds, dylibShapes, dylibKinds) ==
  {[is_dylib |-> FALSE, kind |-> k, shape |-> c] :
     k \in objKinds, c \in [1..Len(names) -> objShapes \cup {"none"}]}
  \cup
  {[is_dylib |-> TRUE, kind |-> k, shape |-> c] :
     k \in dylibKinds, c \in [1..Len(names) -> dylibShapes \cup {"none"}]}

\* File f as ObjectFile::create / DylibFile::create and parse leave it.
MakeFile(f, names, ch) ==
  IF ch.is_dylib
  THEN [is_dylib |-> TRUE, priority |-> FilePriority(f),
        \* DylibFile::create: is_alive = needed_l || !dead_strip_dylibs
        in_archive |-> FALSE, is_alive |-> ch.kind.is_alive,
        is_hidden |-> FALSE, is_weak |-> ch.kind.is_weak,
        syms |-> BuildSyms(names, ch.shape, f, TRUE, 1)]
  ELSE [is_dylib |-> FALSE, priority |-> FilePriority(f),
        \* ObjectFile::create: is_alive = archive_name.empty() || ctx.all_load
        in_archive |-> ch.kind.in_archive, is_alive |-> ~ch.kind.in_archive,
        is_hidden |-> ch.kind.is_hidden, is_weak |-> FALSE,
        syms |-> BuildSyms(names, ch.shape, f, FALSE, 1)]

\* The input files 1..n of a link.
RECURSIVE MakeFiles(_, _, _)
MakeFiles(names, ch, n) ==
  IF n = 0 THEN <<>>
  ELSE Append(MakeFiles(names, ch, n - 1), MakeFile(n, names, ch[n]))

\* --------------------------------------------------------------------------
\* MachSym predicates
\* --------------------------------------------------------------------------

is_common(msym) == msym.type = "N_UNDF" /\ msym.is_extern /\ msym.value # 0

is_undef(msym) == msym.type = "N_UNDF" /\ ~is_common(msym)

\* --------------------------------------------------------------------------
\* Symbol
\* --------------------------------------------------------------------------

\* A Symbol as get_symbol first interns it (and as clear_symbols leaves it).
FreshSymbol ==
  [file |-> NoFile, scope |-> "LOCAL", is_imported |-> FALSE, is_weak |-> FALSE,
   subsec |-> NullSubsec, value |-> 0, is_common |-> FALSE]

\* --------------------------------------------------------------------------
\* get_rank
\* --------------------------------------------------------------------------

get_rank(file, common, weak) ==
  IF common
  THEN IF ~alive[file] THEN 6 * RankUnit + files[file].priority
       ELSE 5 * RankUnit + files[file].priority
  ELSE IF files[file].is_dylib \/ ~alive[file]
       THEN IF weak THEN 4 * RankUnit + files[file].priority
            ELSE 3 * RankUnit + files[file].priority
       ELSE IF weak THEN 2 * RankUnit + files[file].priority
            ELSE 1 * RankUnit + files[file].priority

get_rank_sym(sym) ==
  IF sym.file = NoFile THEN 7 * RankUnit
  ELSE get_rank(sym.file, sym.is_common, sym.is_weak)

\* --------------------------------------------------------------------------
\* ObjectFile::resolve_symbols
\* --------------------------------------------------------------------------

is_private_extern(f, msym) ==
  files[f].is_hidden \/ msym.is_private_extern \/ (msym.weak_ref /\ msym.weak_def)

merge_scope(sym, f, msym) ==
  IF sym.scope = "EXTERN" THEN "EXTERN"
  ELSE IF is_private_extern(f, msym) THEN "PRIVATE_EXTERN" ELSE "EXTERN"

\* The Symbol after object f claims it for its entry msym.
ObjClaim(sym, f, msym) ==
  LET base == [sym EXCEPT !.file = f, !.is_imported = FALSE,
                          !.is_weak = msym.weak_def]
  IN CASE msym.type = "N_UNDF" ->
            [base EXCEPT !.subsec = NullSubsec, !.value = msym.value,
                         !.is_common = TRUE]
       [] msym.type = "N_ABS" ->
            [base EXCEPT !.subsec = NullSubsec, !.value = msym.value,
                         !.is_common = FALSE]
       [] msym.type = "N_SECT" ->
            [base EXCEPT !.subsec = msym.subsec,
                         !.value = msym.value - msym.subsec.input_addr,
                         !.is_common = FALSE]

\* The Symbol of entry msym after one iteration of the loop of
\* ObjectFile::resolve_symbols of f, under the symbol's lock.
ObjResolveSym(sym0, f, msym) ==
  IF ~msym.is_extern \/ is_undef(msym) THEN sym0
  ELSE LET sym == [sym0 EXCEPT !.scope = merge_scope(sym0, f, msym)]
       IN IF get_rank(f, is_common(msym), msym.weak_def) < get_rank_sym(sym)
          THEN ObjClaim(sym, f, msym)
          ELSE sym

\* --------------------------------------------------------------------------
\* DylibFile::resolve_symbols
\* --------------------------------------------------------------------------

\* The Symbol of export e after one iteration of the loop of
\* DylibFile::resolve_symbols of f, under the symbol's lock.
DylibResolveSym(sym, f, e) ==
  IF get_rank(f, FALSE, FALSE) < get_rank_sym(sym)
  THEN [file |-> f, scope |-> "LOCAL", is_imported |-> TRUE,
        is_weak |-> (files[f].is_weak \/ e.is_weak_symbol),
        subsec |-> NullSubsec, value |-> 0, is_common |-> FALSE]
  ELSE sym

\* Symbol table st after iteration i of resolve_symbols of file f.
ResolveEntry(st, f, i) ==
  [st EXCEPT ![files[f].syms[i].name] =
     IF files[f].is_dylib THEN DylibResolveSym(@, f, files[f].syms[i])
     ELSE ObjResolveSym(@, f, files[f].syms[i])]

\* resolve_symbols of file f run to completion from entry i.
RECURSIVE ResolveFrom(_, _, _)
ResolveFrom(st, f, i) ==
  IF i > Len(files[f].syms) THEN st
  ELSE ResolveFrom(ResolveEntry(st, f, i), f, i + 1)

\* Every file's resolve_symbols, one file after the other in `order`.
RECURSIVE ResolveInOrder(_, _)
ResolveInOrder(st, order) ==
  IF order = <<>> THEN st
  ELSE ResolveInOrder(ResolveFrom(st, Head(order), 1), Tail(order))

AllResolved == \A f \in Files : rpc[f] > Len(files[f].syms)

\* InputFile::resolve_symbols of f advances by one entry.
ResolveSymbols(f) ==
  /\ rpc[f] <= Len(files[f].syms)
  /\ symtab' = ResolveEntry(symtab, f, rpc[f])
  /\ rpc' = [rpc EXCEPT ![f] = @ + 1]
  /\ UNCHANGED <<files, alive, checked, diags, mpc, fed>>

\* --------------------------------------------------------------------------
\* ObjectFile::check_duplicate_symbols
\* --------------------------------------------------------------------------

DuplicatesOf_no_weak_test(f) ==
  {<<f, symtab[files[f].syms[i].name].file, files[f].syms[i].name>> :
     i \in {j \in 1..Len(files[f].syms) :
              LET msym == files[f].syms[j]
                  sym == symtab[msym.name]
              IN /\ sym.file # NoFile
                 /\ sym.file # f
                 /\ ~is_undef(msym)
                 /\ ~is_common(msym)}}

DuplicatesOf(f) ==
  {<<f, symtab[files[f].syms[i].name].file, files[f].syms[i].name>> :
     i \in {j \in 1..Len(files[f].syms) :
              LET msym == files[f].syms[j]
                  sym == symtab[msym.name]
              IN /\ sym.file # NoFile
                 /\ sym.file # f
                 /\ ~is_undef(msym)
                 /\ ~is_common(msym)
                 /\ ~msym.weak_def}}

\* Runs after resolution (a barrier separates the phases).
CheckDuplicateSymbols(f) ==
  /\ AllResolved
  /\ ~files[f].is_dylib
  /\ f \notin checked
  /\ checked' = checked \cup {f}
  /\ diags' = diags \cup DuplicatesOf(f)
  /\ UNCHANGED <<files, alive, symtab, rpc, mpc, fed>>

\* --------------------------------------------------------------------------
\* Specification of resolution followed by the duplicate check
\* --------------------------------------------------------------------------

ObjShapes == {"undef", "strong", "weak", "common", "pext", "abs", "weakref_weakdef"}
DylibShapes == {"export", "weak_export"}
ObjKinds == {[in_archive |-> FALSE, is_hidden |-> FALSE],
             [in_archive |-> TRUE, is_hidden |-> FALSE],
             [in_archive |-> FALSE, is_hidden |-> TRUE]}
DylibKinds == {[is_alive |-> TRUE, is_weak |-> FALSE],
               [is_alive |-> TRUE, is_weak |-> TRUE]}

Init ==
  /\ \E ch \in [Files -> FileChoices(ResolveNames, ObjShapes, ObjKinds,
                                      DylibShapes, DylibKinds)] :
       files = MakeFiles(ResolveNames, ch, NumFiles)
  /\ alive = [f \in Files |-> files[f].is_alive]
  /\ symtab = [n \in AllNames |-> FreshSymbol]
  /\ rpc = [f \in Files |-> 1]
  /\ checked = {}
  /\ diags = {}
  /\ mpc = [f \in Files |-> 1]
  /\ fed = [f \in Files |-> 0]
  /\ ParseIdle
  /\ DylibIdle

Next ==
  \/ \E f \in Files : ResolveSymbols(f) /\ UNCHANGED <<parVars, dylVars>>
  \/ \E f \in Files : CheckDuplicateSymbols(f) /\ UNCHANGED <<parVars, dylVars>>

Spec == Init /\ [][Next]_vars

\* --------------------------------------------------------------------------
\* ObjectFile::mark_live_objects
\* --------------------------------------------------------------------------

mark_live_keep_common_only(msym, sym) == is_common(msym) /\ ~sym.is_common

mark_live_keep(msym, sym) ==
  is_undef(msym) \/ (is_common(msym) /\ ~sym.is_common)

\* As FeederCalled, without looking at what the exchange returned.
FeederCalled_ignoring_exchange(was_alive, owner) == ~files[owner].is_dylib

\* As FeederCalled, without the is_dylib test.
FeederCalled_for_dylibs(was_alive, owner) == ~was_alive

\* Whether the feeder is called for `owner`, given what
\* sym.file->is_alive.exchange(true) returned.
FeederCalled(was_alive, owner) == ~was_alive /\ ~files[owner].is_dylib

\* Entry i of f's loop reaches `sym.file->is_alive.exchange(true)`.
MarkLiveExchanges(f, i) ==
  LET msym == files[f].syms[i]
      sym == symtab[msym.name]
  IN /\ msym.is_extern
     /\ sym.file # NoFile
     /\ mark_live_keep(msym, sym)

\* mark_live_objects runs on the objects that are alive when the sweep starts
\* and on every object handed to the feeder.
MarkLiveStarted(f) ==
  ~files[f].is_dylib /\ (files[f].is_alive \/ fed[f] > 0)

\* One iteration (entry i = mpc[f]) of the loop of mark_live_objects of f,
\* under the symbol's lock.
MarkLiveObjects(f) ==
  /\ AllResolved
  /\ MarkLiveStarted(f)
  /\ alive[f]
  /\ mpc[f] <= Len(files[f].syms)
  /\ mpc' = [mpc EXCEPT ![f] = @ + 1]
  /\ LET owner == symtab[files[f].syms[mpc[f]].name].file
     IN IF MarkLiveExchanges(f, mpc[f])
        THEN /\ alive' = [alive EXCEPT ![owner] = TRUE]
             /\ fed' = IF FeederCalled(alive[owner], owner)
                       THEN [fed EXCEPT ![owner] = @ + 1]
                       ELSE fed
        ELSE UNCHANGED <<alive, fed>>
  /\ UNCHANGED <<files, symtab, rpc, checked, diags>>

MarkLiveDone ==
  \A f \in Files : MarkLiveStarted(f) => mpc[f] > Len(files[f].syms)

\* --------------------------------------------------------------------------
\* Specification of the mark-live sweep, started from a resolved symbol table
\* --------------------------------------------------------------------------

LiveObjShapes == {"undef", "strong", "common"}
LiveDylibShapes == {"export"}
LiveObjKinds == {[in_archive |-> FALSE, is_hidden |-> FALSE],
                 [in_archive |-> TRUE, is_hidden |-> FALSE]}
LiveDylibKinds == {[is_alive |-> TRUE, is_weak |-> FALSE],
                   [is_alive |-> FALSE, is_weak |-> FALSE]}

\* Resolution ran before the sweep, the files in any order.
FileOrders ==
  {p \in [1..NumFiles -> Files] : \A i, j \in 1..NumFiles : p[i] = p[j] => i = j}

LiveInit ==
  /\ \E ch \in [Files -> FileChoices(LiveNames, LiveObjShapes, LiveObjKinds,
                                      LiveDylibShapes, LiveDylibKinds)] :
       files = MakeFiles(LiveNames, ch, NumFiles)
  /\ alive = [f \in Files |-> files[f].is_alive]
  /\ \E order \in FileOrders :
       symtab = ResolveInOrder([n \in AllNames |-> FreshSymbol], order)
  /\ rpc = [f \in Files |-> Len(files[f].syms) + 1]
  /\ checked = {}
  /\ diags = {}
  /\ mpc = [f \in Files |-> 1]
  /\ fed = [f \in Files |-> 0]
  /\ ParseIdle
  /\ DylibIdle

LiveNext == \E f \in Files : MarkLiveObjects(f) /\ UNCHANGED <<parVars, dylVars>>

LiveSpec == LiveInit /\ [][LiveNext]_vars

\* The work queue runs a started mark_live_objects call to its end.
LiveFairSpec == LiveSpec /\ WF_vars(LiveNext)

\* --------------------------------------------------------------------------
\* Claims about the resolver
\* --------------------------------------------------------------------------

FileOrder == [i \in 1..NumFiles |-> i]

\* C1 (resolver determinism): once every file has run resolve_symbols, every
\* Symbol is in the state that resolving the files one after the other in
\* command-line order produces, whatever the interleaving was.
ResolverDeterminism ==
  AllResolved =>
    symtab = ResolveInOrder([n \in AllNames |-> FreshSymbol], FileOrder)

\* The kind of a definition by the precedence table.
TableKind(f, e) ==
  IF files[f].is_dylib THEN (IF e.is_weak_symbol THEN 4 ELSE 3)
  ELSE IF is_common(e) THEN (IF alive[f] THEN 5 ELSE 6)
  ELSE IF ~alive[f] THEN (IF e.weak_def THEN 4 ELSE 3)
  ELSE (IF e.weak_def THEN 2 ELSE 1)

Defines(f, i) == files[f].is_dylib \/ ~is_undef(files[f].syms[i])

Definers(n) ==
  {f \in Files : \E i \in 1..Len(files[f].syms) :
                   files[f].syms[i].name = n /\ Defines(f, i)}

EntryOf(f, n) ==
  files[f].syms[CHOOSE i \in 1..Len(files[f].syms) : files[f].syms[i].name = n]

PairLeq(k1, p1, k2, p2) == k1 < k2 \/ (k1 = k2 /\ p1 <= p2)

\* C2 (rank monotone): when two or more files define x and all files have run
\* resolve_symbols, x.file is the definer with the smallest (kind, priority)
\* pair of the precedence table.
RankMonotone ==
  AllResolved =>
    \A n \in AllNames :
      Cardinality(Definers(n)) >= 2 =>
        /\ symtab[n].file \in Definers(n)
        /\ \A g \in Definers(n) :
             PairLeq(TableKind(symtab[n].file, EntryOf(symtab[n].file, n)),
                     files[symtab[n].file].priority,
                     TableKind(g, EntryOf(g, n)), files[g].priority)

StrongDef(msym) == ~is_undef(msym) /\ ~is_common(msym) /\ ~msym.weak_def

\* The live objects that define n strongly.
LiveStrongDefiners(n) ==
  {f \in Files : /\ ~files[f].is_dylib
                 /\ \E i \in 1..Len(files[f].syms) :
                      files[f].syms[i].name = n /\ StrongDef(files[f].syms[i])}

Objects == {f \in Files : ~files[f].is_dylib}

\* C9 (duplicate symbol): a file that ran check_duplicate_symbols reported x
\* exactly when its own entry for x is a strong definition and x is owned by
\* another file; and when exactly two objects define x strongly and both are
\* live, the one with the smaller priority owns x and, once every object was
\* checked, the only diagnostic for x is the loser's, naming both files.
DuplicateSymbolReport ==
  /\ \A f \in checked : \A i \in 1..Len(files[f].syms) :
       LET msym == files[f].syms[i]
       IN (\E d \in diags : d[1] = f /\ d[3] = msym.name)
            <=> (StrongDef(msym) /\ symtab[msym.name].file \notin {NoFile, f})
  /\ \A n \in AllNames : \A a, b \in Files :
       (/\ LiveStrongDefiners(n) = {a, b}
        /\ alive[a] /\ alive[b]
        /\ files[a].priority < files[b].priority
        /\ checked = Objects)
       => /\ symtab[n].file = a
          /\ {d \in diags : d[3] = n} = {<<b, a, n>>}

DuplicateSymbolWitness ==
  /\ checked = Objects
  /\ \E a, b \in Files :
       /\ a # b
       /\ LiveStrongDefiners("_g") = {a, b}
       /\ alive[a] /\ alive[b]
       /\ diags # {}

\* C3 (archive activation): at the fixed point of the mark-live sweep every
\* owner of a symbol that a live object references undefined is alive; and an
\* archive member that is the only definer of _foo, referenced undefined by an
\* object that was alive from the start, is alive and owns _foo.
ArchiveActivation ==
  MarkLiveDone =>
    /\ \A f \in Objects : alive[f] =>
         \A i \in 1..Len(files[f].syms) :
           LET msym == files[f].syms[i]
           IN (msym.is_extern /\ is_undef(msym) /\ symtab[msym.name].file # NoFile)
                => alive[symtab[msym.name].file]
    /\ \A t, m \in Files :
         (/\ ~files[t].is_dylib /\ files[t].is_alive
          /\ \E i \in 1..Len(files[t].syms) :
               files[t].syms[i].name = "_foo" /\ is_undef(files[t].syms[i])
          /\ files[m].in_archive
          /\ Definers("_foo") = {m})
         => alive[m] /\ symtab["_foo"].file = m

ArchiveActivationWitness ==
  /\ MarkLiveDone
  /\ \E t, m \in Files :
       /\ ~files[t].is_dylib /\ files[t].is_alive
       /\ \E i \in 1..Len(files[t].syms) :
            files[t].syms[i].name = "_foo" /\ is_undef(files[t].syms[i])
       /\ files[m].in_archive /\ ~files[m].is_alive
       /\ Definers("_foo") = {m}
       /\ fed[m] = 1
       /\ alive[m]

\* Object f has an extern, defined entry for n that is not private.
ExportsSymbol(f, n) ==
  /\ ~files[f].is_dylib
  /\ \E i \in 1..Len(files[f].syms) :
       LET msym == files[f].syms[i]
       IN /\ msym.name = n
          /\ msym.is_extern
          /\ ~is_undef(msym)
          /\ ~is_private_extern(f, msym)

\* Once every file has run resolve_symbols, a symbol some object exports has
\* scope EXTERN.
ScopeOfExported ==
  AllResolved =>
    \A n \in AllNames :
      (\E f \in Files : ExportsSymbol(f, n)) => symtab[n].scope = "EXTERN"

\* No step takes a symbol's scope from EXTERN to PRIVATE_EXTERN.
ScopeExternKept ==
  [][\A n \in AllNames :
       symtab[n].scope = "EXTERN" => symtab'[n].scope # "PRIVATE_EXTERN"]_vars

\* C11 (scope merge): once every file has run resolve_symbols, in any order,
\* a symbol for which some object has an extern, defined, non-private entry
\* has scope EXTERN, whether or not that object owns it; and no
\* resolve_symbols step changes a scope from EXTERN to PRIVATE_EXTERN.
ScopeMerge == []ScopeOfExported /\ ScopeExternKept

\* The feeder was called at most once for each file, and never for a file
\* that was alive when the sweep started.
FedAtMostOnce ==
  \A f \in Files : fed[f] <= 1 /\ (files[f].is_alive => fed[f] = 0)

\* A step that calls the feeder for a file is the step whose exchange turned
\* that file's is_alive from false to true, and no step clears is_alive.
FedByExchangeWinner ==
  [][\A f \in Files :
       /\ fed'[f] # fed[f] =>
            /\ fed'[f] = fed[f] + 1
            /\ ~files[f].is_dylib
            /\ ~alive[f]
            /\ alive'[f]
       /\ alive[f] => alive'[f]]_vars

ExchangesOnDylib(f, i) ==
  /\ mpc[f] = i
  /\ mpc'[f] = i + 1
  /\ MarkLiveExchanges(f, i)
  /\ files[symtab[files[f].syms[i].name].file].is_dylib

\* C13 as stated: an iteration of mark_live_objects whose symbol is kept and
\* owned by a dylib leaves that dylib's is_alive unchanged and does not call
\* the feeder.
DylibOwnerUntouched ==
  [][\A f \in Files : \A i \in 1..Len(files[f].syms) :
       ExchangesOnDylib(f, i) =>
         LET d == symtab[files[f].syms[i].name].file
         IN alive'[d] = alive[d] /\ fed' = fed]_vars

\* C13: an iteration of mark_live_objects whose symbol is kept and owned by
\* a dylib sets that dylib's is_alive to true, changes no other file's
\* is_alive, and does not call the feeder; the feeder is never called for a
\* dylib.
DylibOwnerMarkedNotFed ==
  /\ [][\A f \in Files : \A i \in 1..Len(files[f].syms) :
          ExchangesOnDylib(f, i) =>
            LET d == symtab[files[f].syms[i].name].file
            IN /\ alive'[d]
               /\ \A g \in Files \ {d} : alive'[g] = alive[g]
               /\ fed' = fed]_vars
  /\ [](\A d \in Files : files[d].is_dylib => fed[d] = 0)

\* A dylib that was not alive owns a symbol a live object references, and the
\* sweep has marked it alive without feeding it.
DylibOwnerMarkedWitness ==
  \E t, d \in Files :
    /\ files[d].is_dylib /\ ~files[d].is_alive
    /\ ~files[t].is_dylib /\ files[t].is_alive
    /\ \E i \in 1..Len(files[t].syms) :
         /\ mpc[t] > i
         /\ MarkLiveExchanges(t, i)
         /\ symtab[files[t].syms[i].name].file = d
    /\ alive[d]
    /\ fed[d] = 0

\* ==========================================================================
\* ObjectFile::parse
\* ==========================================================================

\* sizeof(CompactUnwindEntry)
UnwindEntrySize == 32

\* std::countr_zero of a 64-bit zero
WordBits == 64

\* Null Subsection pointer, and a pointer read from outside a vector.
NullId == 0
WildId == -1

\* SplitRegion::symidx of a region no symbol starts: (u32)-1.
NoSymIdx == -1

\* SplitRegion::size before anything is stored to it.
Indeterminate == -1

\* sections[i] is null for __LD,__compact_unwind and for debug sections.
HasInputSection(msec) == msec.kind \in {"regular", "cstring"}

\* --------------------------------------------------------------------------
\* sort (a stable sort by an integer key)
\* --------------------------------------------------------------------------

\* The index list `sorted` with index i inserted behind every index whose key
\* is <= keys[i].
RECURSIVE InsertByKey(_, _, _)
InsertByKey(sorted, i, keys) ==
  IF sorted = <<>> THEN <<i>>
  ELSE IF keys[Head(sorted)] <= keys[i]
       THEN <<Head(sorted)>> \o InsertByKey(Tail(sorted), i, keys)
       ELSE <<i>> \o sorted

\* The stable order of the indices 1..n by keys.
RECURSIVE SortedIndices(_, _)
SortedIndices(keys, n) ==
  IF n = 0 THEN <<>>
  ELSE InsertByKey(SortedIndices(keys, n - 1), n, keys)

\* seq in the order idx lists its indices.
RECURSIVE Permuted(_, _, _)
Permuted(seq, idx, n) ==
  IF n = 0 THEN <<>> ELSE Append(Permuted(seq, idx, n - 1), seq[idx[n]])

SortByKey(seq, keys) ==
  Permuted(seq, SortedIndices(keys, Len(seq)), Len(seq))

\* --------------------------------------------------------------------------
\* split_regular_sections
\* --------------------------------------------------------------------------

\* The regions pushed for section s (1-based index in the section table): one
\* for each N_SECT symbol of s, in symbol-table order.
SymbolRegions(o, s) ==
  LET idx == SelectSeq([i \in 1..Len(o.mach_syms) |-> i],
                       LAMBDA i : /\ o.mach_syms[i].type = "N_SECT"
                                  /\ o.mach_syms[i].sect = s)
  IN [k \in 1..Len(idx) |->
        [offset |-> o.mach_syms[idx[k]].value - o.sects[s].addr,
         size |-> Indeterminate,
         symidx |-> idx[k],
         is_alt_entry |-> o.mach_syms[idx[k]].alt_entry]]

\* for (i = 1; i < r.size(); i++)
\*   if (r[i - 1].offset == r[i].offset) r[i++].is_alt_entry = true;
\* with i counted from 1 here.
RECURSIVE PromoteAltEntries(_, _)
PromoteAltEntries(r, i) ==
  IF i > Len(r) THEN r
  ELSE IF r[i - 1].offset = r[i].offset
       THEN PromoteAltEntries([r EXCEPT ![i].is_alt_entry = TRUE], i + 2)
       ELSE PromoteAltEntries(r, i + 1)

\* The loop that closes the sizes; last = 0 stands for the code's last = -1.
RECURSIVE CloseSizes(_, _, _, _)
CloseSizes(r, i, last, secsize) ==
  IF i > Len(r)
  THEN IF last # 0 THEN [r EXCEPT ![last].size = secsize - r[last].offset] ELSE r
  ELSE IF ~r[i].is_alt_entry
       THEN CloseSizes(IF last # 0
                       THEN [r EXCEPT ![last].size = r[i].offset - r[last].offset]
                       ELSE r,
                       i + 1, i, secsize)
       ELSE CloseSizes(r, i + 1, last, secsize)

\* "Fix regions so that they cover the entire section without overlapping."
FixRegions(r, secsize) ==
  IF r = <<>>
  THEN <<[offset |-> 0, size |-> secsize, symidx |-> NoSymIdx, is_alt_entry |-> FALSE]>>
  ELSE LET sorted == SortByKey(r, [k \in 1..Len(r) |-> r[k].offset])
           covered == IF sorted[1].offset > 0
                      THEN <<[offset |-> 0, size |-> sorted[1].offset,
                              symidx |-> NoSymIdx, is_alt_entry |-> FALSE]>> \o sorted
                      ELSE sorted
       IN CloseSizes(PromoteAltEntries(covered, 2), 1, 0, secsize)

\* The SplitInfo vector: one entry for each parsed section other than
\* __TEXT,__cstring, sorted by section address.
split_regular_sections(o) ==
  LET secs == SelectSeq([i \in 1..Len(o.sects) |-> i],
                        LAMBDA i : o.sects[i].kind = "regular")
      infos == [k \in 1..Len(secs) |->
                  [isec |-> secs[k], addr |-> o.sects[secs[k]].addr,
                   regions |-> FixRegions(SymbolRegions(o, secs[k]),
                                          o.sects[secs[k]].size)]]
  IN SortByKey(infos, [k \in 1..Len(infos) |-> infos[k].addr])

\* --------------------------------------------------------------------------
\* split_subsections_via_symbols
\* --------------------------------------------------------------------------

\* The `add` lambda: a new Subsection, named by its position in subsec_pool.
NewSubsection(id, o, s, offset, size, p2align) ==
  [id |-> id, isec |-> s, input_offset |-> offset, input_size |-> size,
   input_addr |-> o.sects[s].addr + offset, p2align |-> p2align,
   unwind_offset |-> 0, nunwind |-> 0]

\* The (section, region) pairs in the order the two nested loops visit them.
RECURSIVE RegionVisits(_, _)
RegionVisits(infos, k) ==
  IF k > Len(infos) THEN <<>>
  ELSE [j \in 1..Len(infos[k].regions) |->
          [isec |-> infos[k].isec, r |-> infos[k].regions[j]]]
       \o RegionVisits(infos, k + 1)

\* subsections.back(); on an empty vector the read is out of bounds and
\* yields `stray`.
Back(subs, stray) == IF subs = <<>> THEN stray ELSE subs[Len(subs)].id

\* One iteration of the inner loop over info.regions.
VisitRegion(st, o, v, stray) ==
  LET subs == IF ~v.r.is_alt_entry
              THEN Append(st.subs, NewSubsection(Len(st.subs) + 1, o, v.isec,
                                                 v.r.offset, v.r.size,
                                                 o.sects[v.isec].p2align))
              ELSE st.subs
  IN [subs |-> subs,
      map |-> IF v.r.symidx # NoSymIdx
              THEN [st.map EXCEPT ![v.r.symidx] = Back(subs, stray)]
              ELSE st.map]

RECURSIVE VisitRegions(_, _, _, _)
VisitRegions(o, visits, k, stray) ==
  IF k = 0
  THEN [subs |-> <<>>, map |-> [i \in 1..Len(o.mach_syms) |-> NullId]]
  ELSE LET st == VisitRegions(o, visits, k - 1, stray)
       IN VisitRegion(st, o, visits[k], stray)

\* Whether some region reads subsections.back() while the vector is empty.
RECURSIVE ReadsEmptyBack(_, _)
ReadsEmptyBack(visits, k) ==
  /\ k <= Len(visits)
  /\ visits[k].r.is_alt_entry
  /\ \/ visits[k].r.symidx # NoSymIdx
     \/ ReadsEmptyBack(visits, k + 1)

\* std::string_view::find('\0', pos): 0 stands for npos, positions count from 1.
RECURSIVE FindNul(_, _)
FindNul(str, pos) ==
  IF pos > Len(str) THEN 0
  ELSE IF str[pos] = 0 THEN pos ELSE FindNul(str, pos + 1)

\* As FindNotNul, but stopping behind the first terminator.
FindNotNul_single_terminator(str, pos) ==
  IF pos + 1 > Len(str) THEN 0 ELSE pos + 1

\* std::string_view::find_first_not_of('\0', pos)
RECURSIVE FindNotNul(_, _)
FindNotNul(str, pos) ==
  IF pos > Len(str) THEN 0
  ELSE IF str[pos] # 0 THEN pos ELSE FindNotNul(str, pos + 1)

\* std::countr_zero on a 64-bit word
RECURSIVE countr_zero(_)
countr_zero(x) ==
  IF x = 0 THEN WordBits
  ELSE IF x % 2 = 1 THEN 0 ELSE 1 + countr_zero(x \div 2)

Min(a, b) == IF a < b THEN a ELSE b

\* The while loop over one __TEXT,__cstring section; pos counts from 0 as in
\* the code. `pieces` lists the (offset, size, p2align) triples passed to
\* `add`; `fatal` is set when a string has no terminator.
RECURSIVE SplitCString(_, _, _)
SplitCString(str, p2align, pos) ==
  IF pos >= Len(str) THEN [fatal |-> FALSE, pieces |-> <<>>]
  ELSE LET nul == FindNul(str, pos + 1)
       IN IF nul = 0 THEN [fatal |-> TRUE, pieces |-> <<>>]
          ELSE LET nxt == FindNotNul(str, nul)
                   end == IF nxt = 0 THEN Len(str) ELSE nxt - 1
                   rest == SplitCString(str, p2align, end)
               IN [fatal |-> rest.fatal,
                   pieces |-> <<[offset |-> pos, size |-> end - pos,
                                 p2align |-> Min(p2align, countr_zero(pos))]>>
                              \o rest.pieces]

\* The loop over `sections` that splits every __TEXT,__cstring section,
\* appending to subs.
RECURSIVE SplitCStrings(_, _, _)
SplitCStrings(o, s, subs) ==
  IF s > Len(o.sects) THEN [fatal |-> FALSE, subs |-> subs]
  ELSE IF o.sects[s].kind # "cstring" THEN SplitCStrings(o, s + 1, subs)
  ELSE LET res == SplitCString(o.sects[s].contents, o.sects[s].p2align, 0)
       IN IF res.fatal THEN [fatal |-> TRUE, subs |-> subs]
          ELSE SplitCStrings(o, s + 1,
                 subs \o [j \in 1..Len(res.pieces) |->
                            NewSubsection(Len(subs) + j, o, s,
                                          res.pieces[j].offset,
                                          res.pieces[j].size,
                                          res.pieces[j].p2align)])

\* --------------------------------------------------------------------------
\* init_subsections
\* --------------------------------------------------------------------------

\* The subsection of section s: its position among the sections that have an
\* InputSection, or null.
WholeSectionId(o, s) ==
  IF HasInputSection(o.sects[s])
  THEN Cardinality({t \in 1..s : HasInputSection(o.sects[t])})
  ELSE NullId

init_subsections(o) ==
  LET secs == SelectSeq([i \in 1..Len(o.sects) |-> i],
                        LAMBDA i : HasInputSection(o.sects[i]))
  IN [subs |-> [k \in 1..Len(secs) |->
                  NewSubsection(k, o, secs[k], 0, o.sects[secs[k]].size,
                                o.sects[secs[k]].p2align)],
      map |-> [i \in 1..Len(o.mach_syms) |->
                 IF o.mach_syms[i].type = "N_SECT"
                 THEN WholeSectionId(o, o.mach_syms[i].sect)
                 ELSE NullId]]

\* --------------------------------------------------------------------------
\* find_subsection, fix_subsec_members
\* --------------------------------------------------------------------------

\* std::upper_bound over the sorted vector, then one step back.
find_subsection(subs, addr) ==
  LET it == Cardinality({k \in 1..Len(subs) : subs[k].input_addr <= addr})
  IN IF it = 0 THEN NullId ELSE subs[it].id

\* The Subsection a pointer refers to.
Deref(subs, id) == CHOOSE sub \in {subs[k] : k \in 1..Len(subs)} : sub.id = id

\* The loop body for symbol i; `word` is what reading input_addr through a
\* stray pointer yields.
FixSubsecMember(o, subs, map, i, sym, word) ==
  IF o.mach_syms[i].is_extern \/ o.mach_syms[i].type # "N_SECT" THEN sym
  ELSE LET subsec == IF map[i] = NullId
                     THEN find_subsection(subs, o.mach_syms[i].value)
                     ELSE map[i]
       IN IF subsec # NullId
          THEN [subsec |-> subsec,
                value |-> o.mach_syms[i].value -
                          (IF subsec = WildId THEN word
                           ELSE Deref(subs, subsec).input_addr)]
          ELSE [subsec |-> NullId, value |-> o.mach_syms[i].value]

\* --------------------------------------------------------------------------
\* parse_compact_unwind
\* --------------------------------------------------------------------------

\* A CompactUnwindEntry has no lsda.
NoLsda == -1

\* The record of entry e after the relocation loop. `fatal` is set where the
\* code calls error(): a pc-relative or extern relocation, or a target
\* address below every subsection.
ReadUnwindEntry(subs, e) ==
  LET target == IF e.code_reloc = "ok" THEN find_subsection(subs, e.code_start)
                ELSE NullId
      lsda == IF e.lsda # NoLsda THEN find_subsection(subs, e.lsda) ELSE NullId
  IN [fatal |-> \/ e.code_reloc = "bad"
                \/ e.code_reloc = "ok" /\ target = NullId
                \/ e.lsda # NoLsda /\ lsda = NullId,
      subsec |-> target,
      offset |-> IF target = NullId THEN 0
                 ELSE e.code_start - Deref(subs, target).input_addr,
      lsda |-> lsda,
      lsda_offset |-> IF lsda = NullId THEN 0
                      ELSE e.lsda - Deref(subs, lsda).input_addr]

\* As SortUnwindRecords, but comparing offsets only.
SortUnwindRecords_by_offset_only(subs, recs) ==
  SortByKey(recs, [k \in 1..Len(recs) |-> recs[k].offset])

\* sort by std::tuple(subsec->input_addr, offset): a stable sort on the minor
\* key followed by a stable sort on the major key.
SortUnwindRecords(subs, recs) ==
  LET minor == SortByKey(recs, [k \in 1..Len(recs) |-> recs[k].offset])
  IN SortByKey(minor, [k \in 1..Len(minor) |->
                         Deref(subs, minor[k].subsec).input_addr])

\* The first index >= j whose record belongs to another subsection.
RECURSIVE RunEnd(_, _, _)
RunEnd(recs, id, j) ==
  IF j <= Len(recs) /\ recs[j].subsec = id THEN RunEnd(recs, id, j + 1) ELSE j

\* "Associate unwind entries to subsections"; i counts from 1 here, the
\* stored unwind_offset from 0 as in the code.
RECURSIVE AttachUnwind(_, _, _)
AttachUnwind(subs, recs, i) ==
  IF i > Len(recs) THEN subs
  ELSE LET j == RunEnd(recs, recs[i].subsec, i + 1)
           k == CHOOSE k \in 1..Len(subs) : subs[k].id = recs[i].subsec
       IN AttachUnwind([subs EXCEPT ![k].unwind_offset = i - 1,
                                    ![k].nunwind = j - i],
                       recs, j)

\* --------------------------------------------------------------------------
\* Object files
\* --------------------------------------------------------------------------

\* Size and spacing of the regular sections.
SectionSize == 16

\* Longest symbol table of the objects that vary their symbols.
MaxSyms == 3

\* Longest contents of a __cstring section (the 7-byte example is added).
MaxStrLen == 4

\* Most entries in __LD,__compact_unwind.
MaxUnwind == 3

Section(kind, addr, size, p2align, contents) ==
  [kind |-> kind, addr |-> addr, size |-> size, p2align |-> p2align,
   contents |-> contents]

SeqsUpTo(S, n) == UNION {[1..k -> S] : k \in 0..n}

\* A MachSym of type N_SECT at `offset` in section `sect`.
SectSym(sects, sect, offset, alt, extern) ==
  [type |-> "N_SECT", sect |-> sect, value |-> sects[sect].addr + offset,
   alt_entry |-> alt, is_extern |-> extern]

UndefSym ==
  [type |-> "N_UNDF", sect |-> 0, value |-> 0, alt_entry |-> FALSE,
   is_extern |-> TRUE]

OneUnwindEntry == <<[code_start |-> 0, code_reloc |-> "ok", lsda |-> NoLsda]>>

\* Section tables: one section; two sections listed against address order;
\* a section followed by __LD,__compact_unwind.
Layouts ==
  {<<Section("regular", 0, SectionSize, 2, <<>>)>>,
   <<Section("regular", SectionSize, SectionSize, 2, <<>>),
     Section("regular", 0, SectionSize, 2, <<>>)>>,
   <<Section("regular", 0, SectionSize, 2, <<>>),
     Section("unwind", SectionSize, UnwindEntrySize, 3, <<>>)>>}

SymOffsets == {0, SectionSize \div 2, SectionSize}

\* What a symbol table entry varies: its section, its offset there, and
\* N_ALT_ENTRY.
SymChoices(sects) == [sect : 1..Len(sects), offset : SymOffsets, alt : BOOLEAN]

HasUnwind(sects) == \E s \in 1..Len(sects) : sects[s].kind = "unwind"

\* An object with the section table `sects` and the symbols c, of which the
\* first nlocal are local.
RegularObject(m, sects, c, nlocal) ==
  [subsections_via_symbols |-> m, sects |-> sects,
   mach_syms |-> [i \in 1..Len(c) |->
                    SectSym(sects, c[i].sect, c[i].offset, c[i].alt, i > nlocal)],
   unwind |-> IF HasUnwind(sects) THEN OneUnwindEntry ELSE <<>>]

HiYo == <<104, 105, 0, 0, 121, 111, 0>>

CStringContents == (SeqsUpTo({0, 104}, MaxStrLen) \ {<<>>}) \cup {HiYo}

CStringObject(m, str, p2align) ==
  [subsections_via_symbols |-> m,
   sects |-> <<Section("regular", 0, SectionSize, 2, <<>>),
               Section("cstring", SectionSize, Len(str), p2align, str)>>,
   mach_syms |-> <<>>, unwind |-> <<>>]

\* Entries of __LD,__compact_unwind: the function address, the relocation on
\* code_start (well-formed, absent, or pc-relative/extern), whether an lsda
\* relocation is present.
UnwindEntries ==
  {[code_start |-> c, code_reloc |-> k.reloc,
    lsda |-> IF k.lsda THEN SectionSize \div 2 ELSE NoLsda] :
   <<c, k>> \in {0, SectionSize \div 4, SectionSize \div 2} \X
                {[reloc |-> "ok", lsda |-> FALSE], [reloc |-> "ok", lsda |-> TRUE],
                 [reloc |-> "none", lsda |-> FALSE], [reloc |-> "bad", lsda |-> FALSE]}}

UnwindLayout(n) ==
  <<Section("regular", 0, SectionSize, 2, <<>>),
    Section("unwind", SectionSize, n * UnwindEntrySize, 3, <<>>)>>

\* Symbol tables of the objects that vary their unwind entries: none; two
\* functions; three symbols at one address behind an undefined symbol.
UnwindSymTabs(sects) ==
  {<<>>,
   <<SectSym(sects, 1, 0, FALSE, FALSE),
     SectSym(sects, 1, SectionSize \div 2, FALSE, TRUE)>>,
   <<UndefSym, SectSym(sects, 1, 0, FALSE, TRUE),
     SectSym(sects, 1, 0, FALSE, TRUE), SectSym(sects, 1, 0, FALSE, TRUE)>>}

UnwindObject(m, t, u) ==
  [subsections_via_symbols |-> m, sects |-> UnwindLayout(Len(u)),
   mach_syms |-> t, unwind |-> u]

\* --------------------------------------------------------------------------
\* ObjectFile::parse, from the call that splits the sections to its return
\* --------------------------------------------------------------------------

\* A process that stopped on a stray pointer.
Crash == -2

\* What the out-of-bounds read of subsections.back() can produce.
StrayOutcomes == {NullId, WildId, Crash}

\* What reading Subsection::input_addr through a stray pointer can produce.
StrayWords == {0, Crash}

\* Objects that vary their symbol table; N_ALT_ENTRY is only varied where
\* MH_SUBSECTIONS_VIA_SYMBOLS is set.
RegularStart ==
  \E sects \in Layouts, m \in BOOLEAN, n \in 0..MaxSyms :
    \E c \in [1..n -> SymChoices(sects)], nlocal \in 0..n :
      /\ m \/ \A i \in 1..n : ~c[i].alt
      /\ obj = RegularObject(m, sects, c, nlocal)

\* Objects with a __TEXT,__cstring section.
CStringStart ==
  \E m \in BOOLEAN, str \in CStringContents, p2align \in {0, 3} :
    obj = CStringObject(m, str, p2align)

\* Objects that vary the entries of __LD,__compact_unwind.
UnwindStart ==
  \E m \in BOOLEAN, t \in UnwindSymTabs(UnwindLayout(0)), n \in 0..MaxUnwind :
    \E u \in [1..n -> UnwindEntries] :
      /\ m \/ t = <<>>
      /\ obj = UnwindObject(m, t, u)

\* The state parse_sections and parse_symbols leave behind.
ParseStart ==
  /\ ppc = "split"
  /\ split = <<>>
  /\ subsections = <<>>
  /\ sym_to_subsec = [i \in 1..Len(obj.mach_syms) |-> NullId]
  /\ lsyms = [i \in 1..Len(obj.mach_syms) |-> [subsec |-> NullId, value |-> 0]]
  /\ unwind_records = <<>>
  /\ ResolverIdle
  /\ DylibIdle

\* split_subsections_via_symbols or init_subsections
SplitSubsections ==
  /\ ppc = "split"
  /\ IF obj.subsections_via_symbols
     THEN LET infos == split_regular_sections(obj)
              visits == RegionVisits(infos, 1)
          IN \E stray \in IF ReadsEmptyBack(visits, 1) THEN StrayOutcomes
                            ELSE {NullId} :
               IF stray = Crash
               THEN /\ ppc' = "crashed"
                    /\ UNCHANGED <<split, subsections, sym_to_subsec>>
               ELSE LET st == VisitRegions(obj, visits, Len(visits), stray)
                        cs == SplitCStrings(obj, 1, st.subs)
                    IN /\ split' = infos
                       /\ subsections' = cs.subs
                       /\ sym_to_subsec' = st.map
                       /\ ppc' = IF cs.fatal THEN "fatal" ELSE "sort"
     ELSE LET st == init_subsections(obj)
          IN /\ subsections' = st.subs
             /\ sym_to_subsec' = st.map
             /\ ppc' = "sort"
             /\ UNCHANGED split
  /\ UNCHANGED <<obj, lsyms, unwind_records>>
  /\ UNCHANGED <<resVars, dylVars>>

\* Whether fix_subsec_members reads through a stray pointer.
FixReadsStray ==
  \E i \in 1..Len(obj.mach_syms) :
    /\ ~obj.mach_syms[i].is_extern
    /\ obj.mach_syms[i].type = "N_SECT"
    /\ sym_to_subsec[i] = WildId

\* sort(subsections) by input_addr, then fix_subsec_members
SortAndFixSubsecMembers ==
  /\ ppc = "sort"
  /\ LET sorted == SortByKey(subsections,
                             [k \in 1..Len(subsections) |->
                                subsections[k].input_addr])
     IN \E word \in IF FixReadsStray THEN StrayWords ELSE {0} :
          IF word = Crash
          THEN /\ ppc' = "crashed"
               /\ UNCHANGED <<subsections, lsyms>>
          ELSE /\ subsections' = sorted
               /\ lsyms' = [i \in 1..Len(lsyms) |->
                              FixSubsecMember(obj, sorted, sym_to_subsec, i,
                                              lsyms[i], word)]
               /\ ppc' = "unwind"
  /\ UNCHANGED <<obj, split, sym_to_subsec, unwind_records>>
  /\ UNCHANGED <<resVars, dylVars>>

\* if (unwind_sec) parse_compact_unwind(ctx, *unwind_sec);
ParseCompactUnwind ==
  /\ ppc = "unwind"
  /\ IF ~HasUnwind(obj.sects)
     THEN /\ ppc' = "done"
          /\ UNCHANGED <<subsections, unwind_records>>
     ELSE LET read == [k \in 1..Len(obj.unwind) |->
                         ReadUnwindEntry(subsections, obj.unwind[k])]
          IN IF \E k \in 1..Len(read) : read[k].fatal \/ read[k].subsec = NullId
             THEN /\ ppc' = "fatal"
                  /\ UNCHANGED <<subsections, unwind_records>>
             ELSE LET recs == SortUnwindRecords(subsections,
                                [k \in 1..Len(read) |->
                                   [subsec |-> read[k].subsec,
                                    offset |-> read[k].offset,
                                    lsda |-> read[k].lsda,
                                    lsda_offset |-> read[k].lsda_offset]])
                  IN /\ unwind_records' = recs
                     /\ subsections' = AttachUnwind(subsections, recs, 1)
                     /\ ppc' = "done"
  /\ UNCHANGED <<obj, split, sym_to_subsec, lsyms>>
  /\ UNCHANGED <<resVars, dylVars>>

ParseNext ==
  \/ SplitSubsections
  \/ SortAndFixSubsecMembers
  \/ ParseCompactUnwind

ParseInit == RegularStart /\ ParseStart

ParseSpec == ParseInit /\ [][ParseNext]_vars

CStringInit == CStringStart /\ ParseStart

CStringSpec == CStringInit /\ [][ParseNext]_vars

UnwindInit == UnwindStart /\ ParseStart

UnwindSpec == UnwindInit /\ [][ParseNext]_vars

\* --------------------------------------------------------------------------
\* Properties of ObjectFile::parse
\* --------------------------------------------------------------------------

\* split_subsections_via_symbols has returned.
SplitDone == obj.subsections_via_symbols /\ split # <<>>

\* fix_subsec_members has returned.
FixDone == ppc \in {"unwind", "done"}

SubsectionsOf(s) ==
  {subsections[k] : k \in {j \in 1..Len(subsections) : subsections[j].isec = s}}

RegularSections ==
  {s \in 1..Len(obj.sects) : obj.sects[s].kind = "regular"}

\* C4: in an object split by symbols, the subsections of every parsed section
\* other than __TEXT,__cstring lie inside the section, and every byte offset
\* of the section belongs to exactly one of them: their ranges do not overlap
\* and their union is [0, size).
SubsectionCover ==
  SplitDone =>
    \A s \in RegularSections :
      /\ \A sub \in SubsectionsOf(s) :
           /\ 0 <= sub.input_offset
           /\ sub.input_offset + sub.input_size <= obj.sects[s].size
      /\ \A x \in 0..(obj.sects[s].size - 1) :
           Cardinality({k \in 1..Len(subsections) :
                          /\ subsections[k].isec = s
                          /\ subsections[k].input_offset <= x
                          /\ x < subsections[k].input_offset
                                 + subsections[k].input_size}) = 1

\* Region j of r is an alt-entry: its symbol carries N_ALT_ENTRY or it starts
\* where its predecessor starts.
IsAltEntryRegion(r, j) ==
  \/ r[j].symidx # NoSymIdx /\ obj.mach_syms[r[j].symidx].alt_entry
  \/ j > 1 /\ r[j - 1].offset = r[j].offset

\* The subsections created for region j of section s.
SubsectionsOfRegion(s, r, j) ==
  {sub.id : sub \in {x \in SubsectionsOf(s) :
                       /\ x.input_offset = r[j].offset
                       /\ r[j].symidx # NoSymIdx =>
                            x.id = sym_to_subsec[r[j].symidx]}}

\* C5: in an object split by symbols, every N_SECT symbol of a parsed section
\* other than __TEXT,__cstring is mapped to a subsection of that section
\* whose range, end included, holds the symbol's offset; and an alt-entry
\* symbol is mapped to the subsection of the nearest preceding region of the
\* section that is not an alt-entry.
SymToSubsecInSection ==
  SplitDone =>
    \A n \in 1..Len(split) :
      LET r == split[n].regions
          s == split[n].isec
      IN \A j \in 1..Len(r) :
           r[j].symidx # NoSymIdx =>
             /\ \E sub \in SubsectionsOf(s) :
                  /\ sub.id = sym_to_subsec[r[j].symidx]
                  /\ sub.input_offset <= r[j].offset
                  /\ r[j].offset <= sub.input_offset + sub.input_size
             /\ IsAltEntryRegion(r, j) =>
                  \E p \in 1..(j - 1) :
                    /\ ~IsAltEntryRegion(r, p)
                    /\ \A q \in (p + 1)..(j - 1) : IsAltEntryRegion(r, q)
                    /\ sym_to_subsec[r[j].symidx] \in SubsectionsOfRegion(s, r, p)

IsLocalSectSym(i) ==
  ~obj.mach_syms[i].is_extern /\ obj.mach_syms[i].type = "N_SECT"

\* Some subsection's range, end included, holds addr.
Covered(addr) ==
  \E k \in 1..Len(subsections) :
    /\ subsections[k].input_addr <= addr
    /\ addr <= subsections[k].input_addr + subsections[k].input_size

\* C6: once fix_subsec_members has run, every local N_SECT symbol with a
\* subsection has a value between 0 and that subsection's input_size, and
\* every local N_SECT symbol whose address no subsection covers has a null
\* subsection and its value from the symbol table.
LocalSymbolBounds ==
  FixDone =>
    \A i \in 1..Len(obj.mach_syms) :
      IsLocalSectSym(i) =>
        /\ lsyms[i].subsec # NullId =>
             \E k \in 1..Len(subsections) :
               /\ subsections[k].id = lsyms[i].subsec
               /\ 0 <= lsyms[i].value
               /\ lsyms[i].value <= subsections[k].input_size
        /\ ~Covered(obj.mach_syms[i].value) =>
             /\ lsyms[i].subsec = NullId
             /\ lsyms[i].value = obj.mach_syms[i].value

\* The subsections cut from __TEXT,__cstring, as (offset, size, p2align).
CStringPieces ==
  {[offset |-> subsections[k].input_offset, size |-> subsections[k].input_size,
    p2align |-> subsections[k].p2align] :
   k \in {j \in 1..Len(subsections) :
            obj.sects[subsections[j].isec].kind = "cstring"}}

\* The split of a __cstring section holding 'h','i',NUL,NUL,'y','o',NUL.
HiYoSplit ==
  /\ SplitDone
  /\ \E s \in 1..Len(obj.sects) :
       obj.sects[s].kind = "cstring" /\ obj.sects[s].contents = HiYo

HiYoP2Align ==
  (CHOOSE sec \in {obj.sects[s] : s \in 1..Len(obj.sects)} :
     sec.kind = "cstring").p2align

\* C7 as stated: the seven bytes 'h','i',NUL,NUL,'y','o',NUL are cut into
\* [0,3), [3,6) and [6,7), each with p2align 0.
CStringSlicingAsStated ==
  HiYoSplit =>
    CStringPieces = {[offset |-> 0, size |-> 3, p2align |-> 0],
                     [offset |-> 3, size |-> 3, p2align |-> 0],
                     [offset |-> 6, size |-> 1, p2align |-> 0]}

\* C7: the seven bytes 'h','i',NUL,NUL,'y','o',NUL are cut into exactly two
\* subsections, [0,4) with the section's p2align and [4,7) with the smaller of
\* the section's p2align and 2; both are 0 when the section's p2align is 0.
CStringSlicing ==
  HiYoSplit =>
    /\ CStringPieces = {[offset |-> 0, size |-> 4, p2align |-> HiYoP2Align],
                        [offset |-> 4, size |-> 3,
                         p2align |-> Min(HiYoP2Align, 2)]}
    /\ Cardinality({k \in 1..Len(subsections) :
                      obj.sects[subsections[k].isec].kind = "cstring"}) = 2

CStringSlicingWitness == HiYoSplit /\ ppc = "sort" /\ HiYoP2Align = 0

\* C8: when parse_compact_unwind has returned, every unwind record has a
\* subsection, and for every subsection with nunwind > 0 the records at
\* [unwind_offset, unwind_offset + nunwind) are inside the record vector,
\* belong to that subsection, are in ascending order of offset, and are the
\* only records of that subsection.
UnwindAttach ==
  (ppc = "done" /\ HasUnwind(obj.sects)) =>
    /\ \A i \in 1..Len(unwind_records) : unwind_records[i].subsec # NullId
    /\ \A k \in 1..Len(subsections) :
         LET sub == subsections[k]
             span == (sub.unwind_offset + 1)..(sub.unwind_offset + sub.nunwind)
         IN sub.nunwind > 0 =>
              /\ span \subseteq 1..Len(unwind_records)
              /\ \A i \in span : unwind_records[i].subsec = sub.id
              /\ \A i, j \in span :
                   i < j => unwind_records[i].offset <= unwind_records[j].offset
              /\ \A i \in 1..Len(unwind_records) :
                   unwind_records[i].subsec = sub.id => i \in span

UnwindAttachWitness ==
  /\ ppc = "done"
  /\ Len(unwind_records) = MaxUnwind
  /\ \E k, m \in 1..Len(subsections) :
       /\ k # m
       /\ subsections[k].nunwind > 1
       /\ subsections[m].nunwind > 0
       /\ unwind_records[subsections[k].unwind_offset + 1].offset
            < unwind_records[subsections[k].unwind_offset + 2].offset

\* ==========================================================================
\* DylibFile::create
\* ==========================================================================

\* The dylibs and text stubs find_external_lib can open.
LibPaths == {"libbar.dylib", "libfoo.dylib", "libbaz.dylib"}

\* A path find_external_lib cannot open.
NoLibPath == "libnone.dylib"

\* The library named on the command line.
RootLib == "libbar.dylib"

\* exports and weak_exports as parse_tapi or parse_dylib fill them.
ExportShapes ==
  {[exports |-> {"_foo"}, weak_exports |-> {}],
   [exports |-> {}, weak_exports |-> {"_foo"}],
   [exports |-> {"_bar"}, weak_exports |-> {"_foo"}],
   [exports |-> {}, weak_exports |-> {"_bar"}]}

\* reexported_libs: up to two paths.
ReexportLists ==
  {<<>>} \cup {<<a>> : a \in LibPaths \cup {NoLibPath}}
         \cup {<<p[1], p[2]>> : p \in {q \in LibPaths \X LibPaths : q[1] # q[2]}}

\* find_external_lib: the mapped file, or null.
find_external_lib(path) == IF path \in DOMAIN libs THEN path ELSE NoLibPath

\* The DylibFile after parse_tapi or parse_dylib; `next` is the position of
\* the loop over reexported_libs.
NewDylib(path) ==
  [path |-> path, exports |-> libs[path].exports,
   weak_exports |-> libs[path].weak_exports,
   reexported_libs |-> libs[path].reexported_libs, next |-> 1]

\* The elements of a set, each once, in the order the set is walked.
RECURSIVE SetToSeq(_)
SetToSeq(S) ==
  IF S = {} THEN <<>>
  ELSE LET x == CHOOSE y \in S : TRUE IN <<x>> \o SetToSeq(S \ {x})

\* As WeakOnly, without the exports.contains(s) test.
WeakOnly_no_contains_test(exports, weak_exports) == weak_exports

\* The names the second loop pushes.
WeakOnly(exports, weak_exports) == weak_exports \ exports

\* The two loops that fill syms and is_weak_symbol.
Materialize(d) ==
  LET strong == SetToSeq(d.exports)
      weak == SetToSeq(WeakOnly(d.exports, d.weak_exports))
  IN [path |-> d.path, exports |-> d.exports, weak_exports |-> d.weak_exports,
      syms |-> strong \o weak,
      is_weak_symbol |-> [i \in 1..Len(strong) |-> FALSE]
                         \o [i \in 1..Len(weak) |-> TRUE]]

DylibInit ==
  /\ \E sh \in [LibPaths -> ExportShapes], re \in [LibPaths -> ReexportLists] :
       libs = [p \in LibPaths |->
                 [exports |-> sh[p].exports, weak_exports |-> sh[p].weak_exports,
                  reexported_libs |-> re[p]]]
  /\ dstack = <<NewDylib(RootLib)>>
  /\ dylib = <<>>
  /\ dpc = "run"
  /\ ResolverIdle
  /\ ParseIdle

\* One iteration of the loop over reexported_libs, up to the recursive call.
\* A path whose create is already in progress is opened and parsed again
\* with the same result, so that recursion never returns.
CreateChild ==
  /\ dpc = "run"
  /\ LET top == dstack[Len(dstack)]
     IN /\ top.next <= Len(top.reexported_libs)
        /\ LET mf == find_external_lib(top.reexported_libs[top.next])
           IN IF mf = NoLibPath
              THEN dpc' = "fatal" /\ UNCHANGED dstack
              ELSE IF \E k \in 1..Len(dstack) : dstack[k].path = mf
              THEN dpc' = "diverges" /\ UNCHANGED dstack
              ELSE dstack' = Append(dstack, NewDylib(mf)) /\ UNCHANGED dpc
  /\ UNCHANGED <<libs, dylib>>
  /\ UNCHANGED <<resVars, parVars>>

\* A recursive create returns: the rest of the iteration that called it.
ReturnChild ==
  /\ dpc = "run"
  /\ Len(dstack) > 1
  /\ LET child == dstack[Len(dstack)]
         n == Len(dstack) - 1
     IN /\ child.next > Len(child.reexported_libs)
        /\ dstack' = [SubSeq(dstack, 1, n) EXCEPT
                        ![n].exports = @ \cup child.exports,
                        ![n].weak_exports = @ \cup child.weak_exports,
                        ![n].next = @ + 1]
  /\ UNCHANGED <<libs, dylib, dpc>>
  /\ UNCHANGED <<resVars, parVars>>

\* The outermost create returns.
ReturnDylib ==
  /\ dpc = "run"
  /\ Len(dstack) = 1
  /\ dstack[1].next > Len(dstack[1].reexported_libs)
  /\ dylib' = Materialize(dstack[1])
  /\ dstack' = <<>>
  /\ dpc' = "done"
  /\ UNCHANGED libs
  /\ UNCHANGED <<resVars, parVars>>

DylibNext ==
  \/ CreateChild
  \/ ReturnChild
  \/ ReturnDylib

DylibSpec == DylibInit /\ [][DylibNext]_vars

\* --------------------------------------------------------------------------
\* Properties of DylibFile::create
\* --------------------------------------------------------------------------

\* The libraries a chain of reexported_libs leads to from the libraries S.
RECURSIVE ReexportReach(_, _)
ReexportReach(S, n) ==
  IF n = 0 THEN S
  ELSE ReexportReach(
         S \cup {p \in LibPaths :
                   \E q \in S : \E k \in 1..Len(libs[q].reexported_libs) :
                     libs[q].reexported_libs[k] = p},
         n - 1)

ReexportClosureOf(p) == ReexportReach({p}, Cardinality(LibPaths))

Occurrences(seq, x) == Cardinality({i \in 1..Len(seq) : seq[i] = x})

\* C10: when create has returned for a dylib P, every name exported by a
\* library reachable from P through reexported_libs is in P.exports, every
\* name such a library exports weakly is in P.exports or P.weak_exports,
\* each of these names occurs exactly once in P.syms, and is_weak_symbol is
\* set exactly for the names of weak_exports that are not in exports.
ReexportClosure ==
  dpc = "done" =>
    /\ \A c \in ReexportClosureOf(dylib.path) :
         /\ libs[c].exports \subseteq dylib.exports
         /\ libs[c].weak_exports \subseteq dylib.exports \cup dylib.weak_exports
         /\ \A s \in libs[c].exports \cup libs[c].weak_exports :
              Occurrences(dylib.syms, s) = 1
    /\ \A i \in 1..Len(dylib.syms) :
         dylib.is_weak_symbol[i] <=>
           dylib.syms[i] \in dylib.weak_exports \ dylib.exports

\* A chain of two reexports ends at a library whose weak export the chain's
\* middle library exports strongly.
ReexportClosureWitness ==
  /\ dpc = "done"
  /\ \E a, b \in LibPaths \ {dylib.path} :
       /\ a # b
       /\ libs[dylib.path].reexported_libs = <<a>>
       /\ libs[a].reexported_libs = <<b>>
       /\ \E s \in libs[b].weak_exports :
            /\ s \in libs[a].exports
            /\ s \notin libs[dylib.path].exports
            /\ s \in dylib.exports \cap dylib.weak_exports
       /\ \E i \in 1..Len(dylib.syms) : dylib.is_weak_symbol[i]

\* C14 (alt-entry promotion): in an object split by symbols, every region
\* that starts where its predecessor in the sorted region list starts is an
\* alt-entry, however many symbols share the offset; so no two regions that
\* are not alt-entries share an offset, and no two subsections of a section
\* share an input_addr.
AltEntryPromotion ==
  SplitDone =>
    \A n \in 1..Len(split) :
      LET r == split[n].regions
      IN /\ \A j \in 2..Len(r) :
              r[j - 1].offset = r[j].offset => r[j].is_alt_entry
         /\ \A j, k \in 1..Len(r) :
              (j # k /\ ~r[j].is_alt_entry /\ ~r[k].is_alt_entry)
                => r[j].offset # r[k].offset
         /\ \A a, b \in SubsectionsOf(split[n].isec) :
              a.id # b.id => a.input_addr # b.input_addr

====
